---- MODULE Spec2Model ----
(***************************************************************************)
(* REAL_STATE_QA: the query-translation pipeline.                          *)
(*   resq/ddbb/database.py   MySQL_database (connection, schema context,   *)
(*                           query execution)                              *)
(*   resq/app/functional.py  process_chat (one user turn)                  *)
(*   resq/app/app.py         app() (the session wiring of the Gradio app)  *)
(*   scripts/app.py          the legacy single-file application            *)
(*                                                                         *)
(* Python values are encoded as follows.  None is the empty sequence and   *)
(* an object reference o is <<o>>, so "x is None" is x = None.  A str is   *)
(* a TLA+ string, built with \o exactly as the f-strings build it.  A dict *)
(* is a function whose DOMAIN is its key set.  A raised exception is the   *)
(* field raised of the record an operation returns.                        *)
(***************************************************************************)
EXTENDS Integers, Sequences, FiniteSets, TLC

None == << >>
Some(v) == << v >>
Val(o) == o[1]

(***************************************************************************)
(* Bounds of the model.                                                    *)
(***************************************************************************)
\* tables the database server holds at most
MaxTables == 2
\* method calls on the MySQL_database object of entry "database" at most
MaxCalls == 3
\* user turns of one session at most
MaxTurns == 2

(***************************************************************************)
(* The database server (an external collaborator): the schema that         *)
(* metadata.reflect() finds, in the server's enumeration order, and what   *)
(* executing a statement yields.                                           *)
(***************************************************************************)
\* a column is <<name, str(type)>>, in declaration order; the tables the
\* server may hold
TableCatalog ==
    { [name |-> "t" \o ToString(i),
       columns |-> IF i % 2 = 1
                   THEN << <<"b", "TEXT">>, <<"a", "INTEGER">> >>
                   ELSE << <<"a", "INTEGER">> >>] : i \in 1..MaxTables }

RECURSIVE TableSeqs(_)
TableSeqs(n) ==
    IF n = 0 THEN { << >> }
    ELSE LET shorter == TableSeqs(n - 1)
         IN  shorter \cup
             { Append(s, t) : s \in { q \in shorter : Len(q) = n - 1 },
                              t \in TableCatalog }

Distinct(s) == \A i, j \in 1..Len(s) : i # j => s[i] # s[j]

\* every schema of at most MaxTables tables: a sequence of
\* [name, columns] in the server's enumeration order
Schemas == { s \in TableSeqs(MaxTables) : Distinct(s) }

\* the "tables" entry of config/mysql.yaml: the allow-list
AllowLists == { << >>, <<"t1">>, <<"t2", "t1">>, <<"zz">> }

\* rows of SELECT DISTINCT PROVINCIA, NOMDIS, NOMBRE ... ORDER BY ..., or None
\* when home_data_extraction.barrio_provincia does not exist
BarrioResults ==
    { None,
      Some(<< <<"B", "x", "n1">>, <<"M", "x", "n2">>, <<"M", "y", "n3">> >>) }

Servers == [schema : Schemas, barrio : BarrioResults]

SqlStrings == { "SELECT a FROM t1", "SELEC a", "Error", "DELETE FROM t1" }

ServerTables(srv) == { srv.schema[i].name : i \in 1..Len(srv.schema) }

\* Session().execute(text(sql)) followed by result.fetchall(), result.keys():
\* the rows and keys, or the driver's exception
DriverExecute(srv, sql) ==
    CASE sql = "SELECT a FROM t1" ->
            IF "t1" \in ServerTables(srv)
            THEN [raised |-> FALSE, error |-> "",
                  rows |-> << <<1>>, <<2>> >>, keys |-> <<"a">>]
            ELSE [raised |-> TRUE, error |-> "ProgrammingError: no such table",
                  rows |-> << >>, keys |-> << >>]
      [] sql = "DELETE FROM t1" ->
            IF "t1" \in ServerTables(srv)
            THEN [raised |-> TRUE,
                  error |-> "ResourceClosedError: result does not return rows",
                  rows |-> << >>, keys |-> << >>]
            ELSE [raised |-> TRUE, error |-> "ProgrammingError: no such table",
                  rows |-> << >>, keys |-> << >>]
      [] OTHER ->
            [raised |-> TRUE, error |-> "ProgrammingError: syntax error",
             rows |-> << >>, keys |-> << >>]

(***************************************************************************)
(* Logging (loguru / logging): an operation's log records, in order.       *)
(***************************************************************************)
LogError(msg) == [level |-> "ERROR", msg |-> msg]
LogInfo(msg) == [level |-> "INFO", msg |-> msg]

(***************************************************************************)
(* class MySQL_database                                                    *)
(***************************************************************************)
EmptyDict == [k \in {} |-> ""]

\* MySQL_database(**ddbb_config): Session and metadata default to None,
\* database_ctx to a dict of the instance's own
NewDatabase(id, tables) ==
    [id |-> id, Session |-> None, metadata |-> None,
     tables |-> Some(tables), database_ctx |-> EmptyDict]

\* what an operation on a handle yields: the handle afterwards, whether an
\* exception left the method, the returned value (None for no value) and
\* the log records written
Outcome(h, raised, ret, logs) ==
    [h |-> h, raised |-> raised, ret |-> ret, logs |-> logs]

ConnectOutcomes == { "ok", "engine_error", "reflect_error" }

\* connect_to_database that creates the sessionmaker before it reflects
connect_to_database_session_first(h, srv, outcome) ==
    CASE outcome = "engine_error" ->
            Outcome(h, TRUE, None,
                    << LogError("Error connecting to database: create_engine") >>)
      [] outcome = "reflect_error" ->
            Outcome([h EXCEPT !.Session = Some("sessionmaker"),
                              !.metadata = Some(<< >>)], TRUE, None,
                    << LogInfo("Connected correctly to: DatabaseConfig"),
                       LogError("Error connecting to database: reflect") >>)
      [] OTHER ->
            Outcome([h EXCEPT !.metadata = Some(srv.schema),
                              !.Session = Some("sessionmaker")],
                    FALSE, None,
                    << LogInfo("Connected correctly to: DatabaseConfig") >>)

\* connect_to_database: create_engine, MetaData(), reflect, sessionmaker;
\* any exception is logged and re-raised
connect_to_database(h, srv, outcome) ==
    CASE outcome = "engine_error" ->
            Outcome(h, TRUE, None,
                    << LogError("Error connecting to database: create_engine") >>)
      [] outcome = "reflect_error" ->
            Outcome([h EXCEPT !.metadata = Some(<< >>)], TRUE, None,
                    << LogInfo("Connected correctly to: DatabaseConfig"),
                       LogError("Error connecting to database: reflect") >>)
      [] OTHER ->
            Outcome([h EXCEPT !.metadata = Some(srv.schema),
                              !.Session = Some("sessionmaker")],
                    FALSE, None,
                    << LogInfo("Connected correctly to: DatabaseConfig") >>)

\* f"{column.name} ({str(column.type)})"
ColumnStr(c) == c[1] \o " (" \o c[2] \o ")"

InList(x, lst) == \E i \in 1..Len(lst) : lst[i] = x

\* the dict {"nombre": table_name, "columnas": columns}, as its items in
\* insertion order
TableDict(table_name, columns) ==
    << [key |-> "nombre", isList |-> FALSE, str |-> table_name, list |-> << >>],
       [key |-> "columnas", isList |-> TRUE, str |-> "", list |-> columns] >>

\* the loop run over the allow-list instead of over the reflected tables
RECURSIVE SelectTables_in_list_order(_, _, _)
SelectTables_in_list_order(tables, selected, i) ==
    IF i > Len(selected) THEN << >>
    ELSE LET hit == { k \in 1..Len(tables) : tables[k].name = selected[i] }
             rest == SelectTables_in_list_order(tables, selected, i + 1)
         IN  IF hit = { } THEN rest
             ELSE LET t == tables[CHOOSE k \in hit : TRUE]
                  IN  << TableDict(t.name,
                                   [c \in 1..Len(t.columns) |->
                                       ColumnStr(t.columns[c])]) >> \o rest

\* the loop of lines 121-128: the reflected tables in key order, those in
\* the allow-list kept
RECURSIVE SelectTables(_, _, _)
SelectTables(tables, selected, i) ==
    IF i > Len(tables) THEN << >>
    ELSE LET t == tables[i]
             rest == SelectTables(tables, selected, i + 1)
         IN  IF InList(t.name, selected)
             THEN << TableDict(t.name,
                               [c \in 1..Len(t.columns) |-> ColumnStr(t.columns[c])]) >>
                  \o rest
             ELSE rest

RECURSIVE RenderItems(_, _)
RenderItems(items, i) ==
    IF i > Len(items) THEN ""
    ELSE items[i] \o "\n" \o RenderItems(items, i + 1)

\* the inner loop over table.items() (lines 134-140)
RECURSIVE RenderDict(_, _)
RenderDict(table, i) ==
    IF i > Len(table) THEN ""
    ELSE table[i].key \o ":"
         \o (IF table[i].isList THEN RenderItems(table[i].list, 1)
             ELSE table[i].str \o "\n")
         \o RenderDict(table, i + 1)

\* the loop over enumerate(tables_lst) (lines 132-140)
RECURSIVE RenderTables(_, _)
RenderTables(tables_lst, i) ==
    IF i > Len(tables_lst) THEN ""
    ELSE "Tabla " \o ToString(i - 1) \o ":\n"
         \o RenderDict(tables_lst[i], 1)
         \o RenderTables(tables_lst, i + 1)

\* database_ctx["user"] += text, or = text when the key is absent
AddUserCtx(ctx, text) ==
    IF "user" \in DOMAIN ctx
    THEN [k \in {"user"} |-> ctx["user"] \o text]
    ELSE [k \in {"user"} |-> text]

MetadataKeys(tables) == [i \in 1..Len(tables) |-> tables[i].name]

\* create_tables_context: returns nothing; any exception is logged and
\* swallowed (metadata None: 'NoneType' object has no attribute 'tables')
create_tables_context(h) ==
    IF h.metadata = None
    THEN Outcome(h, FALSE, None,
                 << LogError("Error generating tables context: NoneType") >>)
    ELSE LET reflected == Val(h.metadata)
             h1 == IF h.tables = None
                   THEN [h EXCEPT !.tables = Some(MetadataKeys(reflected))]
                   ELSE h
             tables_lst == SelectTables(reflected, Val(h1.tables), 1)
             tables_ctx == RenderTables(tables_lst, 1)
         IN  Outcome([h1 EXCEPT !.database_ctx = AddUserCtx(@, tables_ctx)],
                     FALSE, None,
                     << LogInfo("Tables context generated successfully") >>)

\* iteration order of a Python set of str: fixed within one process by the
\* process's hash seed, different between processes
HashSeeds == { 0, 1 }
ValueOrder == <<"B", "M", "x", "y">>
Reverse(s) == [i \in 1..Len(s) |-> s[Len(s) + 1 - i]]
RECURSIVE Filter(_, _, _)
Filter(s, S, i) ==
    IF i > Len(s) THEN << >>
    ELSE (IF s[i] \in S THEN << s[i] >> ELSE << >>) \o Filter(s, S, i + 1)
SetIteration(S, seed) ==
    Filter(IF seed = 0 THEN ValueOrder ELSE Reverse(ValueOrder), S, 1)

\* ', '.join(items)
RECURSIVE Join(_, _)
Join(items, i) ==
    IF i > Len(items) THEN ""
    ELSE items[i] \o (IF i < Len(items) THEN ", " ELSE "") \o Join(items, i + 1)

\* generate_province_district_hood_relation: any exception (Session None,
\* the table missing) is logged and swallowed
generate_province_district_hood_relation(h, srv, seed) ==
    IF h.Session = None \/ srv.barrio = None
    THEN Outcome(h, FALSE, None,
                 << LogError("Error generating province, district, and neighborhood relation") >>)
    ELSE LET results == Val(srv.barrio)
             provincias == { results[i][1] : i \in 1..Len(results) }
             distritos == { results[i][2] : i \in 1..Len(results) }
             neighborhood_ctx ==
                 "Los valores posibles de la columna provincia son : "
                 \o Join(SetIteration(provincias, seed), 1) \o "\n"
                 \o " Los valores posibles de la columna distrito son : "
                 \o Join(SetIteration(distritos, seed), 1) \o "\n"
         IN  Outcome([h EXCEPT !.database_ctx = AddUserCtx(@, neighborhood_ctx)],
                     FALSE, None,
                     << LogInfo("Province, district, and neighborhood relation generated successfully") >>)

\* get_database_ctx: both builders in turn
get_database_ctx(h, srv, seed) ==
    LET a == create_tables_context(h)
        b == generate_province_district_hood_relation(a.h, srv, seed)
    IN  Outcome(b.h, FALSE, None,
                a.logs \o b.logs
                \o << LogInfo("Database context retrieved successfully") >>)

\* the pair ([], [])
EmptyResult == << << >>, << >> >>

\* execute_sql_query whose handler logs and re-raises
execute_sql_query_reraising(h, srv, sql_query) ==
    IF h.Session = None
    THEN Outcome(h, TRUE, None,
                 << LogError("Error executing SQL query: NoneType") >>)
    ELSE LET r == DriverExecute(srv, sql_query)
         IN  IF r.raised
             THEN Outcome(h, TRUE, None,
                          << LogError("Error executing SQL query: " \o r.error) >>)
             ELSE Outcome(h, FALSE, Some(<< r.rows, r.keys >>), << >>)

\* execute_sql_query: the rows and keys; any exception (also Session None:
\* 'NoneType' object is not callable) is logged and ([], []) returned
execute_sql_query(h, srv, sql_query) ==
    IF h.Session = None
    THEN Outcome(h, FALSE, Some(EmptyResult),
                 << LogError("Error executing SQL query: NoneType") >>)
    ELSE LET r == DriverExecute(srv, sql_query)
         IN  IF r.raised
             THEN Outcome(h, FALSE, Some(EmptyResult),
                          << LogError("Error executing SQL query: " \o r.error) >>)
             ELSE Outcome(h, FALSE, Some(<< r.rows, r.keys >>), << >>)

\* query: raises "Database has not connected properly" inside its own try,
\* whose handler logs whatever was raised and returns ([], [])
query(h, srv, sql_query) ==
    IF h.Session = None \/ h.metadata = None
    THEN Outcome(h, FALSE, Some(EmptyResult),
                 << LogError("Error executing SQL query: Database has not connected properly") >>)
    ELSE LET r == execute_sql_query(h, srv, sql_query)
         IN  IF r.raised
             THEN Outcome(r.h, FALSE, Some(EmptyResult),
                          r.logs \o << LogError("Error executing SQL query") >>)
             ELSE r

(***************************************************************************)
(* scripts/app.py: the legacy application's functions                      *)
(***************************************************************************)
\* get_tables_context(metadata, selected_tables): an empty selection means
\* every reflected table
get_tables_context(tables, selected_tables) ==
    LET table_names == MetadataKeys(tables)
        selected == IF selected_tables = << >> THEN table_names
                    ELSE selected_tables
        tables_lst == SelectTables(tables, selected, 1)
    IN  RenderTables(tables_lst, 1)

\* json documents: {"<key>": "<value>"}
JsonObject(key, value) == "{\"" \o key \o "\": \"" \o value \o "\"}"
JsonKeys == { "sql_query", "query" }

\* what the language model may answer with: conforming json, json holding a
\* line break inside the string, json without the required field, json that
\* is no object, and text that is not json
RawOutputs ==
    { JsonObject("sql_query", q) : q \in SqlStrings }
    \cup { JsonObject("sql_query", "SELECT a\nFROM t1"),
           JsonObject("query", "SELECT a FROM t1"),
           "[1]",
           "SELECT a FROM t1" }

\* text.find("\n", start), counted from 1; 0 when there is none
FirstNewline(text, start) ==
    LET at == { j \in start..Len(text) : SubSeq(text, j, j) = "\n" }
    IN  IF at = { } THEN 0 ELSE CHOOSE j \in at : \A k \in at : j <= k

\* content.replace("\n", " ")
RECURSIVE ReplaceNewlines(_, _)
ReplaceNewlines(text, start) ==
    LET i == FirstNewline(text, start)
    IN  IF i = 0 THEN SubSeq(text, start, Len(text))
        ELSE SubSeq(text, start, i - 1) \o " " \o ReplaceNewlines(text, i + 1)

\* Python objects that are subscripted: a dict, a list, a tuple
PyDict(d) == [type |-> "dict", dict |-> d]
PyList == [type |-> "list", dict |-> EmptyDict]
PyTuple == [type |-> "tuple", dict |-> EmptyDict]

\* json.loads on the documents above: the object, or raised (JSONDecodeError;
\* a raw line break inside a string is a decode error too)
JsonLoads(text) ==
    IF \E k \in JsonKeys, v \in SqlStrings : text = JsonObject(k, v)
    THEN LET kv == CHOOSE kv \in JsonKeys \X SqlStrings :
                        text = JsonObject(kv[1], kv[2])
         IN  [raised |-> FALSE, obj |-> PyDict([k \in {kv[1]} |-> kv[2]])]
    ELSE IF text = "[1]"
    THEN [raised |-> FALSE, obj |-> PyList]
    ELSE [raised |-> TRUE, obj |-> PyList]

\* obj[key] with a str key: KeyError on a dict without the key, TypeError on
\* a list or a tuple
Subscript(obj, key) ==
    IF obj.type = "dict"
    THEN IF key \in DOMAIN obj.dict
         THEN [raised |-> FALSE, exc |-> "", ret |-> Some(obj.dict[key])]
         ELSE [raised |-> TRUE, exc |-> "KeyError", ret |-> None]
    ELSE [raised |-> TRUE, exc |-> "TypeError", ret |-> None]

\* natural_language_to_sql, from the model's answer on: the except branch
\* binds resposnse_json to a one-element tuple (the statement ends with a
\* comma), and the subscript is outside the try
natural_language_to_sql(content) ==
    LET loaded == JsonLoads(ReplaceNewlines(content, 1))
        resposnse_json == IF loaded.raised THEN PyTuple ELSE loaded.obj
    IN  Subscript(resposnse_json, "sql_query")

\* the legacy execute_sql_query(session, sql_query): logs and returns [],[]
\* on any exception
legacy_execute_sql_query(srv, sql_query) ==
    LET r == DriverExecute(srv, sql_query)
    IN  IF r.raised
        THEN [ret |-> EmptyResult, logs |-> << LogError(r.error) >>]
        ELSE [ret |-> << r.rows, r.keys >>, logs |-> << >>]

\* format_response: pd.DataFrame(data=result, columns=columns)
format_response(result, columns) == [columns |-> columns, data |-> result]
\* str(df.shape)
ShapeStr(df) ==
    "(" \o ToString(Len(df.data)) \o ", " \o ToString(Len(df.columns)) \o ")"

\* a call of a collaborator, as instrumentation would record it
Step(call, arg) == [call |-> call, arg |-> arg]

\* gradio_interface that echoes the model's raw answer
gradio_interface_echoing_answer(srv, content) ==
    LET answer == natural_language_to_sql(content)
    IN  IF answer.raised
        THEN [raised |-> TRUE, exc |-> answer.exc, ret |-> None, logs |-> << >>,
              steps |-> << Step("natural_language_to_sql", content) >>]
        ELSE LET x == legacy_execute_sql_query(srv, Val(answer.ret))
                 response == format_response(x.ret[1], x.ret[2])
             IN  [raised |-> FALSE, exc |-> "",
                  ret |-> Some(<< response,
                                  content \o " --- " \o ShapeStr(response) >>),
                  logs |-> x.logs,
                  steps |-> << Step("natural_language_to_sql", content),
                               Step("execute_sql_query", Val(answer.ret)),
                               Step("format_response", "") >>]

\* gradio_interface: translate, execute, format, and the text handed to
\* the text box
gradio_interface(srv, content) ==
    LET answer == natural_language_to_sql(content)
    IN  IF answer.raised
        THEN [raised |-> TRUE, exc |-> answer.exc, ret |-> None, logs |-> << >>,
              steps |-> << Step("natural_language_to_sql", content) >>]
        ELSE LET x == legacy_execute_sql_query(srv, Val(answer.ret))
                 response == format_response(x.ret[1], x.ret[2])
             IN  [raised |-> FALSE, exc |-> "",
                  ret |-> Some(<< response,
                                  Val(answer.ret) \o " --- " \o ShapeStr(response) >>),
                  logs |-> x.logs,
                  steps |-> << Step("natural_language_to_sql", content),
                               Step("execute_sql_query", Val(answer.ret)),
                               Step("format_response", "") >>]

(***************************************************************************)
(* resq.llm.model.llm_model                                                *)
(***************************************************************************)
\* llm_model(**model_config)
NewModel(id) == [id |-> id, initialized |-> FALSE, database_context |-> None]

\* _initialize_model
initialize_model(m) == [m EXCEPT !.initialized = TRUE]

\* infer, from the model's answer on: the sql_query of a conforming answer,
\* else the sentinel
SentinelError == "Error"
infer(content) ==
    LET loaded == JsonLoads(ReplaceNewlines(content, 1))
    IN  IF ~loaded.raised /\ loaded.obj.type = "dict"
           /\ "sql_query" \in DOMAIN loaded.obj.dict
        THEN loaded.obj.dict["sql_query"]
        ELSE SentinelError

(***************************************************************************)
(* State.                                                                  *)
(***************************************************************************)
VARIABLES
    entry,      \* the program that runs: "database" (a MySQL_database used
                \* directly), "process_chat" (called with handles absent),
                \* "launch_app" (app()), "scripts_app" (the legacy script)
    server,     \* the database server
    hashSeed,   \* the process's str hash seed
    tables,     \* the allow-list of the configuration
    calls,      \* method calls (entry "database") or user turns so far
    db,         \* entry "database": the MySQL_database object
    tables_str, \* entry "database": what get_tables_context last returned
    last,       \* the last operation: its name, argument, whether it raised,
                \* its return value, its log records and its collaborator calls
    llm_gradio,       \* the session's model handle (gr.State)
    database_gradio,  \* the session's database handle (gr.State)
    pc,         \* process_chat: the line reached, or "idle"
    model,      \* process_chat: the local model
    database,   \* process_chat: the local database
    the_query,      \* process_chat: the local query (None before infer returns)
    steps,      \* process_chat: the collaborator calls of the running turn
    exc,        \* process_chat: the exception in flight
    inits,      \* the session's completed initialization steps, counted
    nextId,     \* the next object identity
    metadata,       \* scripts_app: the module's metadata (None before load)
    db_tables_ctx,  \* scripts_app: the module's schema context
    heap,       \* several UI sessions: the objects alive, by identity
    ui,         \* several UI sessions: each session's gr.State values and
                \* the locals of its running process_chat call
    globals     \* several UI sessions: the module-level names of scripts/app.py

vars == << entry, server, hashSeed, tables, calls, db, tables_str, last,
           llm_gradio, database_gradio, pc, model, database, the_query, steps,
           exc, inits, nextId, metadata, db_tables_ctx, heap, ui, globals >>

envVars == << entry, server, hashSeed, tables >>
dbVars == << db, tables_str >>
chatVars == << llm_gradio, database_gradio, pc, model, database, the_query,
               steps, exc, inits, nextId >>
scriptVars == << metadata, db_tables_ctx >>
sessVars == << heap, ui, globals >>

\* no object, no session, no module-level name
EmptyHeap == [i \in {} |-> None]
NoSessions == [s \in {} |-> None]
NoGlobals == [session |-> None, db_tables_ctx |-> None]

NoOp == [op |-> "", arg |-> "", raised |-> FALSE, ret |-> None, logs |-> << >>,
         steps |-> << >>]
Done(op, arg, o) ==
    [op |-> op, arg |-> arg, raised |-> o.raised, ret |-> o.ret, logs |-> o.logs,
     steps |-> << >>]

Entries == { "database", "process_chat", "launch_app", "scripts_app" }

NoInits == [connect |-> 0, ctx |-> 0, model |-> 0]

\* app(), lines 24-25 and 58-61: both handles are constructed at startup and
\* kept in gr.State
AppHandles ==
    /\ llm_gradio = Some(NewModel(1))
    /\ database_gradio = Some(NewDatabase(2, tables))

\* a caller of process_chat whose session state has a handle absent
AbsentHandles ==
    /\ llm_gradio \in { None, Some(NewModel(1)) }
    /\ database_gradio \in { None, Some(NewDatabase(2, tables)) }
    /\ llm_gradio = None \/ database_gradio = None

Init ==
    /\ entry \in Entries
    /\ server \in Servers
    /\ hashSeed \in IF server.barrio = None THEN { 0 } ELSE HashSeeds
    /\ tables \in AllowLists
    /\ calls = 0
    /\ db = NewDatabase(1, tables)
    /\ tables_str = None
    /\ last = NoOp
    /\ IF entry = "process_chat" THEN AbsentHandles ELSE AppHandles
    /\ pc = IF entry = "scripts_app" THEN "import" ELSE "idle"
    /\ model = None
    /\ database = None
    /\ the_query = None
    /\ steps = << >>
    /\ exc = ""
    /\ inits = NoInits
    /\ nextId = 3
    /\ metadata = None
    /\ db_tables_ctx = None
    /\ heap = EmptyHeap
    /\ ui = NoSessions
    /\ globals = NoGlobals

(***************************************************************************)
(* Entry "database": the methods of one MySQL_database object, called in   *)
(* any order.                                                              *)
(***************************************************************************)
DbCall(op, arg, o) ==
    /\ entry = "database"
    /\ calls < MaxCalls
    /\ calls' = calls + 1
    /\ db' = o.h
    /\ last' = Done(op, arg, o)
    /\ UNCHANGED << sessVars, envVars, tables_str, chatVars, scriptVars >>

db_connect_to_database ==
    \E outcome \in ConnectOutcomes :
        DbCall("connect_to_database", outcome,
               connect_to_database(db, server, outcome))

db_create_tables_context ==
    DbCall("create_tables_context", "", create_tables_context(db))

db_generate_relation ==
    DbCall("generate_province_district_hood_relation", "",
           generate_province_district_hood_relation(db, server, hashSeed))

db_get_database_ctx ==
    DbCall("get_database_ctx", "", get_database_ctx(db, server, hashSeed))

db_query ==
    \E sql \in SqlStrings : DbCall("query", sql, query(db, server, sql))

db_execute_sql_query ==
    \E sql \in SqlStrings :
        DbCall("execute_sql_query", sql, execute_sql_query(db, server, sql))

\* the legacy builder applied to the object's metadata and allow-list
db_get_tables_context ==
    /\ entry = "database"
    /\ calls < MaxCalls
    /\ db.metadata # None
    /\ calls' = calls + 1
    /\ tables_str' = Some(get_tables_context(Val(db.metadata), Val(db.tables)))
    /\ last' = [NoOp EXCEPT !.op = "get_tables_context"]
    /\ UNCHANGED << sessVars, envVars, db, chatVars, scriptVars >>

(***************************************************************************)
(* Entries "process_chat" and "launch_app": process_chat, one action per   *)
(* block; pc names the line the turn has reached.                          *)
(***************************************************************************)
\* the click handler calls process_chat(model, database, user_input) with
\* the session's handles
chat_call ==
    /\ entry \in { "process_chat", "launch_app" }
    /\ pc = "idle"
    /\ calls < MaxTurns
    /\ calls' = calls + 1
    /\ pc' = "L137"
    /\ model' = llm_gradio
    /\ database' = database_gradio
    /\ the_query' = None
    /\ steps' = << >>
    /\ exc' = ""
    /\ last' = NoOp
    /\ UNCHANGED << sessVars, envVars, dbVars, scriptVars, llm_gradio, database_gradio,
                    inits, nextId >>

\* lines 137-144: if database is None, construct, connect, build the context
chat_init_database ==
    /\ pc = "L137"
    /\ IF database = None
       THEN \E outcome \in ConnectOutcomes :
              LET c == connect_to_database(NewDatabase(nextId, tables), server,
                                           outcome)
                  g == get_database_ctx(c.h, server, hashSeed)
              IN  /\ nextId' = nextId + 1
                  /\ IF c.raised
                     THEN /\ database' = Some(c.h)
                          /\ pc' = "L165"
                          /\ exc' = "connect_to_database"
                          /\ steps' = steps
                                \o << Step("connect_to_database", outcome) >>
                          /\ UNCHANGED inits
                     ELSE /\ database' = Some(g.h)
                          /\ pc' = "L146"
                          /\ exc' = exc
                          /\ steps' = steps
                                \o << Step("connect_to_database", outcome),
                                      Step("get_database_ctx", "") >>
                          /\ inits' = [inits EXCEPT !.connect = @ + 1,
                                                    !.ctx = @ + 1]
       ELSE /\ pc' = "L146"
            /\ UNCHANGED << database, exc, steps, inits, nextId >>
    /\ UNCHANGED << sessVars, envVars, dbVars, scriptVars, calls, last, llm_gradio,
                    database_gradio, model, the_query >>

\* lines 146-154: if model is None, construct, initialize, bind the context
chat_init_model ==
    /\ pc = "L146"
    /\ pc' = "L157"
    /\ IF model = None
       THEN /\ model' = Some([initialize_model(NewModel(nextId)) EXCEPT
                                !.database_context =
                                    Some(Val(database).database_ctx)])
            /\ steps' = steps \o << Step("llm_model", ""),
                                    Step("_initialize_model", "") >>
            /\ inits' = [inits EXCEPT !.model = @ + 1]
            /\ nextId' = nextId + 1
       ELSE UNCHANGED << model, steps, inits, nextId >>
    /\ UNCHANGED << sessVars, envVars, dbVars, scriptVars, calls, last, llm_gradio,
                    database_gradio, database, the_query, exc >>

\* line 157: query = model.infer(user_input); a model that was constructed
\* but never initialized may fail instead
chat_infer ==
    /\ pc = "L157"
    /\ \E content \in RawOutputs :
       \E fails \in IF Val(model).initialized THEN { FALSE } ELSE BOOLEAN :
          /\ steps' = steps \o << Step("infer", "") >>
          /\ IF fails
             THEN pc' = "L165" /\ exc' = "infer" /\ UNCHANGED the_query
             ELSE pc' = "L160" /\ the_query' = Some(infer(content)) /\ UNCHANGED exc
    /\ UNCHANGED << sessVars, envVars, dbVars, scriptVars, calls, last, llm_gradio,
                    database_gradio, model, database, inits, nextId >>

\* line 160: database.pandas_query(query); MySQL_database defines no
\* pandas_query, so the attribute lookup raises AttributeError
chat_pandas_query ==
    /\ pc = "L160"
    /\ pc' = "L165"
    /\ exc' = "AttributeError: pandas_query"
    /\ UNCHANGED << sessVars, envVars, dbVars, scriptVars, calls, last, llm_gradio,
                    database_gradio, model, database, the_query, steps, inits,
                    nextId >>

\* lines 165-167: log and re-raise; the locals are gone and the session's
\* handles are what they were
chat_except ==
    /\ pc = "L165"
    /\ pc' = "idle"
    /\ last' = [op |-> "process_chat", arg |-> "", raised |-> TRUE,
                ret |-> None,
                logs |-> << LogError("Error processing user input: " \o exc) >>,
                steps |-> steps]
    /\ model' = None
    /\ database' = None
    /\ the_query' = None
    /\ UNCHANGED << sessVars, envVars, dbVars, scriptVars, calls, llm_gradio,
                    database_gradio, steps, exc, inits, nextId >>

(***************************************************************************)
(* Entry "scripts_app": the legacy script.                                 *)
(***************************************************************************)
\* lines 174-178, at import: connect_to_database (an exception ends the
\* script) and get_tables_context with the selected tables
script_load ==
    /\ entry = "scripts_app"
    /\ pc = "import"
    /\ \E ok \in BOOLEAN :
          IF ok
          THEN /\ pc' = "idle"
               /\ metadata' = Some(server.schema)
               /\ db_tables_ctx' = Some(get_tables_context(server.schema, tables))
          ELSE /\ pc' = "exited"
               /\ UNCHANGED << metadata, db_tables_ctx >>
    /\ UNCHANGED << sessVars, envVars, dbVars, calls, last, llm_gradio, database_gradio,
                    model, database, the_query, steps, exc, inits, nextId >>

\* the click handler gradio_interface(user_input)
script_gradio_interface ==
    /\ entry = "scripts_app"
    /\ pc = "idle"
    /\ calls < MaxTurns
    /\ calls' = calls + 1
    /\ \E content \in RawOutputs :
          LET r == gradio_interface(server, content)
          IN  last' = [op |-> "gradio_interface", arg |-> content,
                       raised |-> r.raised, ret |-> r.ret, logs |-> r.logs,
                       steps |-> r.steps]
    /\ UNCHANGED << sessVars, envVars, dbVars, chatVars, scriptVars >>

Next ==
    \/ db_connect_to_database
    \/ db_create_tables_context
    \/ db_generate_relation
    \/ db_get_database_ctx
    \/ db_query
    \/ db_execute_sql_query
    \/ db_get_tables_context
    \/ chat_call
    \/ chat_init_database
    \/ chat_init_model
    \/ chat_infer
    \/ chat_pandas_query
    \/ chat_except
    \/ script_load
    \/ script_gradio_interface

Spec == Init /\ [][Next]_vars

(***************************************************************************)
(* Several UI sessions at once.  Handles are references: heap maps an      *)
(* object's identity to the object, and a session holds identities.        *)
(***************************************************************************)
SessionIds == { "s1", "s2" }
SessionEntries == { "process_chat", "launch_app", "scripts_app" }

\* the session of the legacy script: sessionmaker(bind=engine)() -- one
\* Session object, whose transaction begins with its first execute and is
\* never committed, rolled back or closed by the script
NewSession(id) == [id |-> id, transaction |-> FALSE]

\* a session between turns, with the values its gr.State components hold
IdleSession(llm, dbh) ==
    [llm_gradio |-> llm, database_gradio |-> dbh, pc |-> "idle",
     model |-> None, database |-> None, the_query |-> None, exc |-> "",
     turns |-> 0]

\* gr.State(llm), gr.State(database): every session starts from its own
\* deep copy of the objects app() constructed
StateCopies ==
    /\ heap = [i \in 1..4 |->
                 IF i % 2 = 1 THEN NewModel(i) ELSE NewDatabase(i, tables)]
    /\ ui = [s \in SessionIds |->
               IF s = "s1" THEN IdleSession(Some(1), Some(2))
               ELSE IdleSession(Some(3), Some(4))]
    /\ globals = NoGlobals

\* scripts/app.py after its import: session, metadata and db_tables_ctx are
\* names of the module, there is nothing per UI session
ModuleGlobals ==
    /\ heap = [i \in { 1 } |-> NewSession(1)]
    /\ ui = [s \in SessionIds |-> IdleSession(None, None)]
    /\ globals = [session |-> Some(1),
                  db_tables_ctx |->
                      Some(get_tables_context(server.schema, tables))]

SessInit ==
    /\ entry \in SessionEntries
    /\ server \in Servers
    /\ hashSeed \in IF server.barrio = None THEN { 0 } ELSE HashSeeds
    /\ tables \in AllowLists
    /\ calls = 0
    /\ db = NewDatabase(1, tables)
    /\ tables_str = None
    /\ last = NoOp
    /\ llm_gradio = None
    /\ database_gradio = None
    /\ pc = "idle"
    /\ model = None
    /\ database = None
    /\ the_query = None
    /\ steps = << >>
    /\ exc = ""
    /\ inits = NoInits
    /\ nextId = 3
    /\ metadata = None
    /\ db_tables_ctx = None
    /\ CASE entry = "launch_app" -> StateCopies
         [] entry = "scripts_app" -> ModuleGlobals
         [] OTHER -> /\ heap = EmptyHeap
                     /\ ui = [s \in SessionIds |-> IdleSession(None, None)]
                     /\ globals = NoGlobals

\* the identity of a newly constructed object
FreshId(hp) == CHOOSE i \in 1..(Cardinality(DOMAIN hp) + 1) : i \notin DOMAIN hp

\* the identities an option holds
Ids(o) == IF o = None THEN { } ELSE { Val(o) }
\* the handles a session's turn works with
Handles(u, g) ==
    Ids(u.llm_gradio) \cup Ids(u.database_gradio) \cup Ids(u.model)
    \cup Ids(u.database) \cup Ids(g.session)
\* the objects still referenced
Reachable(sessions, g) == UNION { Handles(sessions[s], g) : s \in SessionIds }
Collect(hp, sessions, g) ==
    [i \in DOMAIN hp \cap Reachable(sessions, g) |-> hp[i]]
\* the heap with object o stored under identity i
Store(hp, i, o) == [j \in DOMAIN hp \cup { i } |-> IF j = i THEN o ELSE hp[j]]

SessUnchanged ==
    UNCHANGED << envVars, dbVars, chatVars, scriptVars, calls, last >>

\* process_chat(model, database, user_input) called with session s's values
ui_chat_call(s) ==
    /\ entry \in { "process_chat", "launch_app" }
    /\ ui[s].pc = "idle"
    /\ ui[s].turns < MaxTurns
    /\ ui' = [ui EXCEPT ![s] = [@ EXCEPT !.pc = "L137",
                                         !.model = ui[s].llm_gradio,
                                         !.database = ui[s].database_gradio,
                                         !.the_query = None,
                                         !.exc = "",
                                         !.turns = @ + 1]]
    /\ UNCHANGED << heap, globals >>
    /\ SessUnchanged

\* lines 137-144 in session s
ui_chat_init_database(s) ==
    /\ ui[s].pc = "L137"
    /\ IF ui[s].database = None
       THEN \E outcome \in ConnectOutcomes :
              LET id == FreshId(heap)
                  c == connect_to_database(NewDatabase(id, tables), server,
                                           outcome)
                  g == get_database_ctx(c.h, server, hashSeed)
              IN  IF c.raised
                  THEN /\ heap' = Store(heap, id, c.h)
                       /\ ui' = [ui EXCEPT ![s] =
                                   [@ EXCEPT !.database = Some(id),
                                             !.pc = "L165",
                                             !.exc = "connect_to_database"]]
                  ELSE /\ heap' = Store(heap, id, g.h)
                       /\ ui' = [ui EXCEPT ![s] =
                                   [@ EXCEPT !.database = Some(id),
                                             !.pc = "L146"]]
       ELSE /\ ui' = [ui EXCEPT ![s].pc = "L146"]
            /\ UNCHANGED heap
    /\ UNCHANGED globals
    /\ SessUnchanged

\* lines 146-154 in session s
ui_chat_init_model(s) ==
    /\ ui[s].pc = "L146"
    /\ IF ui[s].model = None
       THEN LET id == FreshId(heap)
                m == [initialize_model(NewModel(id)) EXCEPT
                        !.database_context =
                            Some(heap[Val(ui[s].database)].database_ctx)]
            IN  /\ heap' = Store(heap, id, m)
                /\ ui' = [ui EXCEPT ![s] = [@ EXCEPT !.model = Some(id),
                                                     !.pc = "L157"]]
       ELSE /\ ui' = [ui EXCEPT ![s].pc = "L157"]
            /\ UNCHANGED heap
    /\ UNCHANGED globals
    /\ SessUnchanged

\* line 157 in session s
ui_chat_infer(s) ==
    /\ ui[s].pc = "L157"
    /\ \E content \in RawOutputs :
       \E fails \in IF heap[Val(ui[s].model)].initialized
                    THEN { FALSE } ELSE BOOLEAN :
          ui' = [ui EXCEPT ![s] =
                   IF fails
                   THEN [@ EXCEPT !.pc = "L165", !.exc = "infer"]
                   ELSE [@ EXCEPT !.pc = "L160",
                                  !.the_query = Some(infer(content))]]
    /\ UNCHANGED << heap, globals >>
    /\ SessUnchanged

\* line 160 in session s
ui_chat_pandas_query(s) ==
    /\ ui[s].pc = "L160"
    /\ ui' = [ui EXCEPT ![s] = [@ EXCEPT !.pc = "L165",
                                         !.exc = "AttributeError: pandas_query"]]
    /\ UNCHANGED << heap, globals >>
    /\ SessUnchanged

\* lines 165-167 in session s: the call's locals go, and with them the
\* objects nothing else refers to
ui_chat_except(s) ==
    /\ ui[s].pc = "L165"
    /\ ui' = [ui EXCEPT ![s] = [@ EXCEPT !.pc = "idle",
                                         !.model = None,
                                         !.database = None,
                                         !.the_query = None,
                                         !.exc = ""]]
    /\ heap' = Collect(heap, ui', globals)
    /\ UNCHANGED globals
    /\ SessUnchanged

\* gradio_interface(user_input) for a click of session s: the module's
\* db_tables_ctx and session; session.execute begins the transaction of
\* that one Session object
ui_gradio_interface(s) ==
    /\ entry = "scripts_app"
    /\ ui[s].pc = "idle"
    /\ ui[s].turns < MaxTurns
    /\ \E content \in RawOutputs :
          LET r == gradio_interface(server, content)
              executed == "execute_sql_query" \in
                              { r.steps[i].call : i \in 1..Len(r.steps) }
          IN  /\ ui' = [ui EXCEPT ![s].turns = @ + 1]
              /\ heap' = IF executed
                         THEN [heap EXCEPT ![Val(globals.session)].transaction
                                               = TRUE]
                         ELSE heap
    /\ UNCHANGED globals
    /\ SessUnchanged

SessNext ==
    \E s \in SessionIds :
        \/ ui_chat_call(s)
        \/ ui_chat_init_database(s)
        \/ ui_chat_init_model(s)
        \/ ui_chat_infer(s)
        \/ ui_chat_pandas_query(s)
        \/ ui_chat_except(s)
        \/ ui_gradio_interface(s)

SpecSessions == SessInit /\ [][SessNext]_vars

(***************************************************************************)
(* Properties.                                                             *)
(***************************************************************************)
ChatEntries == { "process_chat", "launch_app" }
InitSteps ==
    { "connect_to_database", "get_database_ctx", "llm_model",
      "_initialize_model" }
StepCalls(s) == { s[i].call : i \in 1..Len(s) }
HasError(logs) == \E i \in 1..Len(logs) : logs[i].level = "ERROR"

\* a handle whose connection is established and whose context is built
Connected(h) == h.Session # None /\ h.metadata # None
ContextBuilt(h) == "user" \in DOMAIN h.database_ctx

\* C1: a call of process_chat that finds both handles present performs no
\* connect_to_database, no get_database_ctx, no model construction and no
\* _initialize_model, and over the turns of one session each of these
\* initialization steps completes at most once.
C1_IdempotentInitialization ==
    entry \in ChatEntries =>
        /\ (llm_gradio # None /\ database_gradio # None)
              => StepCalls(steps) \cap InitSteps = { }
        /\ inits.connect <= 1
        /\ inits.ctx <= 1
        /\ inits.model <= 1

\* C2: in the session app() wires, a turn that is past initialization works
\* on a database handle that is connected (Session and metadata set) with
\* its schema context built, and a finished turn leaves such a handle in
\* the session for the later turns.
C2_PopulatedOnFirstTurn ==
    entry = "launch_app" =>
        /\ pc \in { "L157", "L160" }
              => Connected(Val(database)) /\ ContextBuilt(Val(database))
        /\ (pc = "idle" /\ calls >= 1)
              => /\ database_gradio # None
                 /\ Connected(Val(database_gradio))
                 /\ ContextBuilt(Val(database_gradio))

\* a model answer that is not valid json, or json without sql_query
Malformed(content) ==
    LET loaded == JsonLoads(ReplaceNewlines(content, 1))
    IN  \/ loaded.raised
        \/ loaded.obj.type # "dict"
        \/ "sql_query" \notin DOMAIN loaded.obj.dict

\* C3: on every malformed model output natural_language_to_sql returns the
\* sentinel "Error" as the sql_query (which gradio_interface then hands to
\* the executor) and does not raise.
C3_SentinelOnMalformedOutput ==
    (last.op = "gradio_interface" /\ Malformed(last.arg))
        => /\ ~last.raised
           /\ Len(last.steps) >= 2
           /\ last.steps[2] = Step("execute_sql_query", SentinelError)

\* C4: a turn ends with an exception only when establishing the database
\* connection failed; with the connection established it returns a table
\* and the echoed SQL text.
C4_OnlyConnectionFailureAborts ==
    /\ (last.op = "process_chat" /\ last.raised)
          => exc = "connect_to_database"
    /\ last.op = "gradio_interface" => ~last.raised /\ last.ret # None

\* C6: query on a handle whose Session or metadata is absent fails fast
\* with an exception instead of returning an empty result.
C6_NotConnectedFailsFast ==
    (last.op = "query" /\ ~Connected(db))
        => last.raised /\ last.ret # Some(EmptyResult)

\* the statement fails when the driver executes it
ExecutionFails(sql) == DriverExecute(server, sql).raised

\* C5: a statement whose execution fails on an established connection makes
\* query and execute_sql_query (and the legacy execute_sql_query inside
\* gradio_interface) log an error and return exactly ([], []), both
\* components present, without raising.
C5_ExecutionFailureYieldsEmptyPair ==
    /\ (/\ last.op \in { "query", "execute_sql_query" }
        /\ db.Session # None
        /\ ExecutionFails(last.arg))
          => /\ ~last.raised
             /\ last.ret = Some(EmptyResult)
             /\ HasError(last.logs)
    /\ (/\ last.op = "gradio_interface"
        /\ Len(last.steps) >= 2
        /\ ExecutionFails(last.steps[2].arg))
          => /\ ~last.raised
             /\ HasError(last.logs)
             /\ Val(last.ret)[1] = [columns |-> << >>, data |-> << >>]

\* a failing statement was executed on an established connection
C5_Witness ==
    /\ last.op \in { "query", "execute_sql_query" }
    /\ db.Session # None
    /\ ExecutionFails(last.arg)
    /\ last.ret = Some(EmptyResult)

\* the statement a returned turn handed to the executor
Executed(l) ==
    { l.steps[i].arg : i \in { k \in 1..Len(l.steps) :
                                  l.steps[k].call \in { "execute_sql_query",
                                                        "pandas_query" } } }

C8_SynthesisIsPure ==
    [][(/\ entry = "database"
        /\ calls' = calls + 1
        /\ last.op \in { "create_tables_context", "get_database_ctx" }
        /\ last'.op = last.op)
          => db'.database_ctx = db.database_ctx]_vars

(***************************************************************************)
(* Reading a context text back: its lines, and its table blocks.  A block  *)
(* is a "Tabla <k>:" line with the lines that follow it, up to the next    *)
(* block or the first sentence about column values.                        *)
(***************************************************************************)
StartsWith(text, prefix) ==
    Len(text) >= Len(prefix) /\ SubSeq(text, 1, Len(prefix)) = prefix
EndsWith(text, suffix) ==
    /\ Len(text) >= Len(suffix)
    /\ SubSeq(text, Len(text) - Len(suffix) + 1, Len(text)) = suffix

\* the lines of a text, each without its line break
RECURSIVE SplitLines(_, _)
SplitLines(text, start) ==
    IF start > Len(text) THEN << >>
    ELSE LET i == FirstNewline(text, start)
         IN  IF i = 0 THEN << SubSeq(text, start, Len(text)) >>
             ELSE << SubSeq(text, start, i - 1) >> \o SplitLines(text, i + 1)

IsHeader(line) == StartsWith(line, "Tabla ")
IsFact(line) ==
    StartsWith(line, "Los valores") \/ StartsWith(line, " Los valores")

RECURSIVE BlockEnd(_, _)
BlockEnd(lines, j) ==
    IF j > Len(lines) \/ IsHeader(lines[j]) \/ IsFact(lines[j]) THEN j
    ELSE BlockEnd(lines, j + 1)

RECURSIVE BlocksOf(_, _)
BlocksOf(lines, i) ==
    IF i > Len(lines) THEN << >>
    ELSE IF IsHeader(lines[i])
         THEN LET end == BlockEnd(lines, i + 1)
              IN  << [header |-> lines[i],
                      lines |-> SubSeq(lines, i + 1, end - 1)] >>
                  \o BlocksOf(lines, end)
         ELSE BlocksOf(lines, i + 1)

Blocks(text) == BlocksOf(SplitLines(text, 1), 1)

\* the block of the k-th table: its number from 0, its name, and its
\* columns as "name (type)" in declaration order
ExpectedBlock(k, t) ==
    [header |-> "Tabla " \o ToString(k - 1) \o ":",
     lines |-> << "nombre:" \o t.name >>
               \o [c \in 1..Len(t.columns) |->
                     (IF c = 1 THEN "columnas:" ELSE "")
                     \o t.columns[c][1] \o " (" \o t.columns[c][2] \o ")"]]
ExpectedBlocks(ts) == [k \in 1..Len(ts) |-> ExpectedBlock(k, ts[k])]

\* the tables of ts whose name is in names, in the order of ts
RECURSIVE Named(_, _, _)
Named(ts, names, i) ==
    IF i > Len(ts) THEN << >>
    ELSE (IF ts[i].name \in names THEN << ts[i] >> ELSE << >>)
         \o Named(ts, names, i + 1)
Elements(lst) == { lst[i] : i \in 1..Len(lst) }

\* what a call appended to database_ctx["user"]
Appended(old, new) ==
    IF "user" \in DOMAIN old
    THEN SubSeq(new["user"], Len(old["user"]) + 1, Len(new["user"]))
    ELSE new["user"]

\* a step of create_tables_context or get_database_ctx on a handle that
\* holds reflected metadata
MethodBuilds ==
    /\ entry = "database"
    /\ calls' = calls + 1
    /\ last'.op \in { "create_tables_context", "get_database_ctx" }
    /\ db.metadata # None
\* a step of the legacy get_tables_context
LegacyBuilds ==
    /\ entry = "database"
    /\ calls' = calls + 1
    /\ last'.op = "get_tables_context"
\* the legacy script's import
ScriptBuilds == pc = "import" /\ pc' = "idle"
\* process_chat's database initialization, the connection established
ChatBuilds == pc = "L137" /\ pc' = "L146" /\ database = None

\* C9 as stated: with N reflected tables the synthesized context holds
\* exactly N table blocks, one per reflected table in enumeration order,
\* each listing that table's columns as "name (type)" in declaration order.
C9_OneBlockPerReflectedTable ==
    [][/\ MethodBuilds
          => Blocks(Appended(db.database_ctx, db'.database_ctx))
                = ExpectedBlocks(Val(db.metadata))
       /\ LegacyBuilds
          => Blocks(Val(tables_str')) = ExpectedBlocks(Val(db.metadata))
       /\ ScriptBuilds
          => Blocks(Val(db_tables_ctx')) = ExpectedBlocks(server.schema)
       /\ ChatBuilds
          => Blocks(Val(database').database_ctx["user"])
                = ExpectedBlocks(server.schema)]_vars

\* the selection of the legacy builder: everything when the list is empty
LegacySelection(ts, lst) ==
    IF lst = << >> THEN Named(ts, Elements(MetadataKeys(ts)), 1)
    ELSE Named(ts, Elements(lst), 1)

\* C9, amended: the text a builder call produces holds exactly one table
\* block per reflected table that is named in the allow-list (for
\* get_tables_context: per reflected table when its allow-list is empty),
\* numbered from 0 in enumeration order, each listing that table's columns
\* as "name (type)" in declaration order.
C9_OneBlockPerSelectedTable ==
    [][/\ MethodBuilds
          => Blocks(Appended(db.database_ctx, db'.database_ctx))
                = ExpectedBlocks(Named(Val(db.metadata),
                                       Elements(Val(db.tables)), 1))
       /\ LegacyBuilds
          => Blocks(Val(tables_str'))
                = ExpectedBlocks(LegacySelection(Val(db.metadata),
                                                 Val(db.tables)))
       /\ ScriptBuilds
          => Blocks(Val(db_tables_ctx'))
                = ExpectedBlocks(LegacySelection(server.schema, tables))
       /\ ChatBuilds
          => Blocks(Val(database').database_ctx["user"])
                = ExpectedBlocks(Named(server.schema, Elements(tables), 1))]_vars

\* a context was built from two reflected tables, both in the allow-list,
\* which names them in another order than the server enumerates them
C9_Witness ==
    /\ last.op = "create_tables_context"
    /\ db.metadata # None
    /\ Len(Val(db.metadata)) = 2
    /\ Val(db.metadata)[1].name = "t1"
    /\ Val(db.tables) = << "t2", "t1" >>
    /\ ContextBuilt(db)
    /\ Len(Blocks(db.database_ctx["user"])) = 2

\* C10: with an empty allow-list the context covers every reflected table
\* in enumeration order, for create_tables_context and get_tables_context
\* alike, so the two builders produce the same table blocks for the same
\* metadata and allow-list.
C10_EmptyAllowListCoversAllTables ==
    [][(/\ LegacyBuilds
        /\ last.op = "create_tables_context"
        /\ db.metadata # None)
          => /\ EndsWith(db.database_ctx["user"], Val(tables_str'))
             /\ Val(db.tables) = << >>
                   => /\ Blocks(Val(tables_str'))
                            = ExpectedBlocks(Val(db.metadata))
                      /\ Blocks(db.database_ctx["user"])
                            = ExpectedBlocks(Val(db.metadata))]_vars

\* the distinct values of column col of the rows, each once, in the order
\* of its first row
RECURSIVE DistinctInOrder(_, _, _)
DistinctInOrder(rows, col, i) ==
    IF i > Len(rows) THEN << >>
    ELSE (IF \E j \in 1..(i - 1) : rows[j][col] = rows[i][col]
          THEN << >> ELSE << rows[i][col] >>)
         \o DistinctInOrder(rows, col, i + 1)

\* a step of generate_province_district_hood_relation that built its facts
RelationBuilds ==
    /\ entry = "database"
    /\ calls' = calls + 1
    /\ last'.op = "generate_province_district_hood_relation"
    /\ ~HasError(last'.logs)

\* C11: the province and district values that a call of
\* generate_province_district_hood_relation appends to the context stand in
\* the order in which the DISTINCT ... ORDER BY query returned them, each
\* value once.
C11_FactsInDatabaseOrder ==
    [][RelationBuilds
          => Appended(db.database_ctx, db'.database_ctx)
                = "Los valores posibles de la columna provincia son : "
                  \o Join(DistinctInOrder(Val(server.barrio), 1, 1), 1) \o "\n"
                  \o " Los valores posibles de la columna distrito son : "
                  \o Join(DistinctInOrder(Val(server.barrio), 2, 1), 1)
                  \o "\n"]_vars

\* the table holds the executor's rows and column names, unchanged and in
\* the executor's order
TableOf(df, result) ==
    /\ df.data = result[1]
    /\ df.columns = result[2]
    /\ Len(df.data) = Len(result[1])
    /\ Len(df.columns) = Len(result[2])

\* the translator of a process_chat turn returned a statement
TranslatorReturned(l) ==
    /\ l.op = "process_chat"
    /\ "infer" \in StepCalls(l.steps)
    /\ exc # "infer"

OwnHandles ==
    \A s, t \in DOMAIN ui :
        s # t => Handles(ui[s], globals) \cap Handles(ui[t], globals) = { }

\* a step leaves alone every session that did not take it: its handles,
\* the objects they refer to, and the schema context it works with
OthersUntouched ==
    \A t \in DOMAIN ui :
        ui'[t] = ui[t]
            => /\ \A i \in Handles(ui[t], globals) :
                     i \in DOMAIN heap' /\ heap'[i] = heap[i]
               /\ globals' = globals

\* C13: with several sessions running their turns in any interleaving,
\* each session has database and model handles of its own, and a step of
\* one session's turn (initialization and context synthesis included)
\* changes neither the handles nor the context of another session.
C13_SessionsShareNoState ==
    [][OwnHandles /\ OthersUntouched]_vars

\* the handle holds reflected metadata, and an explicit allow-list none of
\* whose tables was reflected
AllowListNotFound(h) ==
    /\ h.metadata # None
    /\ Val(h.tables) # << >>
    /\ Elements(Val(h.tables)) \cap Elements(MetadataKeys(Val(h.metadata))) = { }

\* C14: when an explicit allow-list was requested and none of its tables
\* is among the reflected tables, building the schema context fails with
\* an exception: create_tables_context and get_database_ctx raise, and
\* process_chat's database initialization does not get past it.
C14_AllowListNotFoundFails ==
    /\ (/\ last.op \in { "create_tables_context", "get_database_ctx" }
        /\ AllowListNotFound(db))
          => /\ last.raised
             /\ ~ContextBuilt(db)
    /\ (/\ pc \in { "L146", "L157", "L160" }
        /\ "get_database_ctx" \in StepCalls(steps))
          => ~AllowListNotFound(Val(database))

\* the collaborator calls of a turn, in the order they were made
CallsOf(l) == [i \in 1..Len(l.steps) |-> l.steps[i].call]

\* the call sequences of a turn that runs its steps in order: database
\* initialization (if absent), model initialization (if absent), one
\* translation, one execution, the formatting
OrderedTurns ==
    { a \o b \o c \o d \o e :
        a \in { << >>, << "connect_to_database", "get_database_ctx" >> },
        b \in { << >>, << "llm_model", "_initialize_model" >> },
        c \in { << "infer" >>, << "natural_language_to_sql" >> },
        d \in { << "query" >>, << "execute_sql_query" >>, << "pandas_query" >> },
        e \in { << >>, << "format_response" >> } }

\* C15: a turn that is not aborted by a connection failure makes its calls
\* in the order database initialization, model initialization, translation,
\* execution, formatting, with exactly one call of the model and exactly
\* one call of the executor, the executor after the translator returned,
\* and no second execution.
C15_StepsInOrderOncePerTurn ==
    /\ (last.op = "process_chat" /\ exc # "connect_to_database")
          => CallsOf(last) \in OrderedTurns
    /\ last.op = "gradio_interface" => CallsOf(last) \in OrderedTurns

\* C16: when a turn of process_chat is about to call model.infer, the
\* model's database_context is the database_ctx of the database handle of
\* that turn, whichever of the two handles were absent on entry.
C16_ModelGroundedInTurnsContext ==
    pc = "L157"
        => Val(model).database_context = Some(Val(database).database_ctx)

\* a step of connect_to_database that raised, on a handle without Session
ConnectFails ==
    /\ entry = "database"
    /\ calls' = calls + 1
    /\ last'.op = "connect_to_database"
    /\ last'.raised
    /\ db.Session = None

\* a step of query right after a connect_to_database that raised
QueryAfterFailedConnect ==
    /\ entry = "database"
    /\ calls' = calls + 1
    /\ last.op = "connect_to_database"
    /\ last.raised
    /\ db.Session = None
    /\ last'.op = "query"

NotConnectedLog ==
    LogError("Error executing SQL query: Database has not connected properly")

\* C17: when connect_to_database raises (at engine creation or at metadata
\* reflection) on a handle whose Session is absent, the Session is still
\* absent afterwards and the handle does not count as connected; query on
\* that handle does not reach the database (it logs that the database is
\* not connected and leaves the handle as it is); and process_chat ends
\* the turn with the exception, handing no handle back to the session.
C17_FailedConnectLeavesNoSession ==
    [][/\ ConnectFails => db'.Session = None /\ ~Connected(db')
       /\ QueryAfterFailedConnect
             => /\ last'.logs = << NotConnectedLog >>
                /\ last'.ret = Some(EmptyResult)
                /\ db' = db
       /\ (pc = "L137" /\ pc' = "L165")
             => /\ exc' = "connect_to_database"
                /\ Val(database').Session = None
       /\ (pc = "L165" /\ pc' = "idle" /\ exc = "connect_to_database")
             => /\ last'.raised
                /\ last'.ret = None
                /\ database_gradio' = database_gradio
                /\ llm_gradio' = llm_gradio]_vars

\* connect_to_database raised at metadata reflection: the handle holds the
\* empty MetaData and no Session
C17_Witness ==
    /\ last.op = "connect_to_database"
    /\ last.raised
    /\ last.arg = "reflect_error"
    /\ db.metadata # None
    /\ db.Session = None

====
